---- MODULE Spec2Model ----
(***************************************************************************)
(* Model of magda-web-client/src/externalPluginComponents.ts: the lookup   *)
(* of external UI plugin components in the browser global scope            *)
(* (window["MagdaPluginComponent" + name]), their validation and their     *)
(* decoration.                                                             *)
(*                                                                         *)
(* A JavaScript value is a record                                          *)
(*   [ty, truthy, reactIs, id, len, props]                                 *)
(* ty      : the result of `typeof`                                        *)
(* truthy  : the result of ToBoolean                                       *)
(* reactIs : what ReactIs.isValidElementType answers for the value         *)
(* id      : the identity / content of the value                           *)
(* len     : the length of a string (0 for every other value)              *)
(* props   : the own enumerable properties, a sequence of <<key, value>>   *)
(*           pairs in Object.keys enumeration order                        *)
(***************************************************************************)
EXTENDS Integers, Sequences, FiniteSets, TLC

\* window   : the global scope, one entry per "MagdaPluginComponent<name>"
\* call     : the last resolver call, [fn, name]
\* result   : what that call returned
\* dirty    : a plugin bundle has written the global scope since that call
\* again    : that call repeated the call before it on an unchanged scope
\* refreshed: that call repeated, after a write to the scope, a call that had
\*            returned nothing
\* rendered : the last mount of a unit wrapped by wrapComponentWithProps
VARIABLES window, call, result, dirty, again, refreshed, rendered

vars == <<window, call, result, dirty, again, refreshed, rendered>>

\* ------------------------------------------------------------------------
\* Bounds of the model
\* ------------------------------------------------------------------------
\* largest number of own keys of an exported object hash
MaxKeys == 2
\* deepest nesting of `default` properties in an exported value
MaxDepth == 2

\* ------------------------------------------------------------------------
\* JavaScript values
\* ------------------------------------------------------------------------
PREFIX == "MagdaPluginComponent"

Prim(ty, truthy, reactIs, id, len) ==
    [ty |-> ty, truthy |-> truthy, reactIs |-> reactIs, id |-> id,
     len |-> len, props |-> <<>>]

Undefined == Prim("undefined", FALSE, FALSE, "undefined", 0)
Null      == Prim("object", FALSE, FALSE, "null", 0)
Zero      == Prim("number", FALSE, FALSE, "0", 0)
EmptyStr  == Prim("string", FALSE, TRUE, "", 0)
Num       == Prim("number", TRUE, FALSE, "5", 0)
Str       == Prim("string", TRUE, TRUE, "div", 3)
Char      == Prim("string", TRUE, TRUE, "c", 1)

\* a function or class component, possibly carrying own properties
Fn(id, props) ==
    [ty |-> "function", truthy |-> TRUE, reactIs |-> TRUE, id |-> id,
     len |-> 0, props |-> props]

\* an exotic component (React.memo, React.forwardRef, ...): typeof is
\* "object" and ReactIs accepts it by its $$typeof tag.  Its internal fields
\* are never read by this code and are left out.
Memo(id) ==
    [ty |-> "object", truthy |-> TRUE, reactIs |-> TRUE, id |-> id,
     len |-> 0, props |-> <<>>]

\* a plain object with the given own properties
Obj(props) ==
    [ty |-> "object", truthy |-> TRUE, reactIs |-> FALSE, id |-> "object",
     len |-> 0, props |-> props]

CompA == Fn("A", <<>>)
CompB == Fn("B", <<>>)
CompM == Memo("M")

\* Object.keys(v): the index keys of a string, the own keys of anything else
ObjectKeys(v) ==
    IF v.ty = "string"
    THEN [i \in 1..v.len |-> ToString(i - 1)]
    ELSE [i \in 1..Len(v.props) |-> v.props[i][1]]

\* v[k] (v?.[k] for null and undefined): undefined unless k is an own key
Get(v, k) ==
    IF v.ty = "string"
    THEN IF \E i \in 1..v.len : ToString(i - 1) = k THEN Char ELSE Undefined
    ELSE IF \E i \in 1..Len(v.props) : v.props[i][1] = k
         THEN v.props[CHOOSE i \in 1..Len(v.props) : v.props[i][1] = k][2]
         ELSE Undefined

\* ------------------------------------------------------------------------
\* Validation and decoration
\* ------------------------------------------------------------------------
\* what a resolver returns: null, one unit, or an array of units
Nothing  == [kind |-> "null", units |-> <<>>]
One(u)   == [kind |-> "unit", units |-> <<u>>]
List(us) == [kind |-> "list", units |-> us]

\* withRouter(connect(mapStateToProps, mapDispatchToProps)(component)):
\* the component with the common properties bound, no loadedPluginNames
Decorate(component) ==
    [component |-> component, wrapped |-> FALSE, loadedPluginNames |-> <<>>]

\* isValidElementType without the string test: ReactIs accepts host tags
isValidElementTypeAnyString(c) ==
    IF ~c.truthy THEN FALSE ELSE c.reactIs

isValidElementType(c) ==
    IF ~c.truthy \/ c.ty = "string" THEN FALSE ELSE c.reactIs

\* getComponentByRef that never looks at `default`
getComponentByRefNoDefault(componentRef) ==
    IF ~componentRef.truthy THEN Nothing
    ELSE IF isValidElementType(componentRef)
         THEN One(Decorate(componentRef))
         ELSE Nothing

getComponentByRef(componentRef) ==
    IF ~componentRef.truthy THEN Nothing
    ELSE LET d == Get(componentRef, "default")
             component ==
                 IF d.truthy /\ isValidElementType(d) THEN d
                 ELSE IF isValidElementType(componentRef) THEN componentRef
                 ELSE Null
         IN  IF ~component.truthy THEN Nothing ELSE One(Decorate(component))

\* the lookup without the `default` step: the scope value itself or null
ExportedValueNoDefault(w, name) ==
    LET e == w[PREFIX \o name]
    IN  IF e.truthy THEN e ELSE Null

\* ExportedValue reading one fixed scope whatever the name asked for
ExportedValueFixedScope(w, name) ==
    LET e == w[PREFIX \o "Header"]
    IN  IF Get(e, "default").truthy THEN Get(e, "default")
        ELSE IF e.truthy THEN e ELSE Null

\* window?.[PREFIX + name]?.default ? window[PREFIX + name].default
\*     : window?.[PREFIX + name] ? window[PREFIX + name] : null
ExportedValue(w, name) ==
    LET e == w[PREFIX \o name]
    IN  IF Get(e, "default").truthy THEN Get(e, "default")
        ELSE IF e.truthy THEN e ELSE Null

\* getComponent keeping what it returned for a name and returning it again
getComponentCached(w, name) ==
    IF call = [fn |-> "getComponent", name |-> name] THEN result
    ELSE getComponentByRef(ExportedValue(w, name))

getComponent(w, name) == getComponentByRef(ExportedValue(w, name))

\* the unit (props) => createElement(component, {...rest, ...overwriteProps},
\* children) for overwriteProps = { loadedPluginNames: names }
wrapComponentWithProps(item, names) ==
    [component |-> item.component, wrapped |-> TRUE,
     loadedPluginNames |-> names]

\* the spread in the other order, { ...overwriteProps, ...restProps }
SpreadCallerWins(restProps, overwriteProps) ==
    [k \in DOMAIN restProps \cup DOMAIN overwriteProps |->
        IF k \in DOMAIN restProps THEN restProps[k]
        ELSE overwriteProps[k]]

\* { ...restProps, ...overwriteProps }: a key of both takes the later value
Spread(restProps, overwriteProps) ==
    [k \in DOMAIN restProps \cup DOMAIN overwriteProps |->
        IF k \in DOMAIN overwriteProps THEN overwriteProps[k]
        ELSE restProps[k]]

\* the children of a props object that has none
NoChildren == <<>>

\* the body of the wrapping unit, called with props: the arguments it hands
\* to React.createElement
RenderWrapped(unit, props) ==
    LET children ==
            IF "children" \in DOMAIN props THEN props["children"]
            ELSE NoChildren
        restProps == [k \in DOMAIN props \ {"children"} |-> props[k]]
        overwriteProps ==
            [k \in {"loadedPluginNames"} |-> unit.loadedPluginNames]
    IN  [type |-> Decorate(unit.component),
         config |-> Spread(restProps, overwriteProps),
         children |-> children]

\* the two arrays kept at module level and never reset: a call starts from
\* what the multi-slot call before it collected
StaleAccumulators ==
    IF call.fn = "getMultipleComponents" /\ Len(result.units) > 0
       /\ result.units[1].wrapped
    THEN [names |-> result.units[1].loadedPluginNames,
          components |->
              [i \in 1..Len(result.units) |->
                  Decorate(result.units[i].component)]]
    ELSE [names |-> <<>>, components |-> <<>>]

\* const extraPluginNames = []; const pluginComponents = [];
FreshAccumulators == [names |-> <<>>, components |-> <<>>]

\* the loop pushing every key to the names, valid candidate or not
RECURSIVE CollectPluginsAllNames(_, _, _, _)
CollectPluginsAllNames(exportedValue, keys, i, acc) ==
    IF i > Len(keys) THEN acc
    ELSE LET pluginComponent == getComponentByRef(Get(exportedValue, keys[i]))
             next ==
                 [names |-> Append(acc.names, keys[i]),
                  components |->
                      IF pluginComponent.kind # "null"
                      THEN Append(acc.components, pluginComponent.units[1])
                      ELSE acc.components]
         IN  CollectPluginsAllNames(exportedValue, keys, i + 1, next)

\* keys.forEach((key) => { ... push ... }) from position i on
RECURSIVE CollectPlugins(_, _, _, _)
CollectPlugins(exportedValue, keys, i, acc) ==
    IF i > Len(keys) THEN acc
    ELSE LET pluginComponent == getComponentByRef(Get(exportedValue, keys[i]))
             next ==
                 IF pluginComponent.kind # "null"
                 THEN [names |-> Append(acc.names, keys[i]),
                       components |->
                           Append(acc.components, pluginComponent.units[1])]
                 ELSE acc
         IN  CollectPlugins(exportedValue, keys, i + 1, next)

\* the typeof test left out
IsObjectHashUnchecked(exportedValue) == TRUE

IsObjectHash(exportedValue) == exportedValue.ty = "object"

\* the lone component sent through wrapComponentWithProps as well
SingleComponentResultWrapped(signleComponent) ==
    List(<<wrapComponentWithProps(signleComponent.units[1], <<>>)>>)

\* return [signleComponent];
SingleComponentResult(signleComponent) == List(signleComponent.units)

getMultipleComponents(w, name) ==
    LET exportedValue == ExportedValue(w, name)
        signleComponent == getComponentByRef(exportedValue)
        keys == ObjectKeys(exportedValue)
        acc == CollectPlugins(exportedValue, keys, 1, FreshAccumulators)
    IN  IF ~exportedValue.truthy THEN Nothing
        ELSE IF signleComponent.kind # "null"
        THEN SingleComponentResult(signleComponent)
        ELSE IF ~IsObjectHash(exportedValue) THEN Nothing
        ELSE IF Len(keys) = 0 THEN Nothing
        ELSE List([i \in 1..Len(acc.components) |->
                      wrapComponentWithProps(acc.components[i], acc.names)])

\* ------------------------------------------------------------------------
\* What plugin bundles export
\* ------------------------------------------------------------------------
SlotNames == {"Header", "ExtraVisualisationSection"}
ScopeNames == {PREFIX \o n : n \in SlotNames}

Atoms == {Null, Zero, EmptyStr, Num, Str, CompA, CompB, CompM, Obj(<<>>)}

\* a component and a module object exposing x as `default`
WithDefault(x) == {Fn("A", <<<<"default", x>>>>), Obj(<<<<"default", x>>>>)}

RECURSIVE Carriers(_)
Carriers(d) ==
    IF d = 0 THEN {Zero, Num, Str, CompB}
    ELSE UNION {WithDefault(x) : x \in Carriers(d - 1)}

KeyNames == {"a", "b", "c", "default"}
Members  == {Num, CompA, CompB}

KeySeqs(n) ==
    {s \in [1..n -> KeyNames] : \A i, j \in 1..n : i # j => s[i] # s[j]}

HashesOfLen(n) ==
    {Obj([i \in 1..n |-> <<s[i], m[i]>>]) :
        s \in KeySeqs(n), m \in [1..n -> Members]}

Hashes ==
    UNION {HashesOfLen(n) : n \in 1..MaxKeys}
    \cup {Obj(<<<<"a", x>>>>) : x \in Carriers(1)}
    \cup {Obj(<<<<"default", h>>>>) : h \in HashesOfLen(1)}

\* a single slot holds a component, a module object exposing one, or junk
SingleSlotExports ==
    {Num, Str, CompA} \cup WithDefault(CompB) \cup WithDefault(Num)
\* a multi slot holds any of the values above, nested or in a hash
MultiSlotExports ==
    Atoms \cup UNION {Carriers(d) : d \in 1..MaxDepth} \cup Hashes

Exports(name) ==
    IF name = "ExtraVisualisationSection" THEN MultiSlotExports
    ELSE SingleSlotExports

\* ------------------------------------------------------------------------
\* The page: plugin bundles load, the host resolves slots
\* ------------------------------------------------------------------------
NoCall == [fn |-> "none", name |-> "none"]
NoElement ==
    [type |-> Decorate(Undefined), config |-> <<>>, children |-> NoChildren]
NoRender ==
    [done |-> FALSE, unit |-> Decorate(Undefined), props |-> <<>>,
     element |-> NoElement]

\* the props a caller may hand to a unit
PropKeys == {"children", "loadedPluginNames", "dataset"}
PropVals == {<<"caller">>, <<"a">>}
CallerProps == UNION {[D -> PropVals] : D \in SUBSET PropKeys}

Init ==
    /\ window = [k \in ScopeNames |-> Undefined]
    /\ call = NoCall
    /\ result = Nothing
    /\ dirty = FALSE
    /\ again = FALSE
    /\ refreshed = FALSE
    /\ rendered = NoRender

\* a plugin bundle's load-time side effect: it exports itself to its scope
Populate(name, v) ==
    /\ window[PREFIX \o name] = Undefined
    /\ window' = [window EXCEPT ![PREFIX \o name] = v]
    /\ dirty' = TRUE
    /\ UNCHANGED <<call, result, again, refreshed, rendered>>

GetComponentCall(name) ==
    /\ call' = [fn |-> "getComponent", name |-> name]
    /\ result' = getComponent(window, name)
    /\ dirty' = FALSE
    /\ again' = (~dirty /\ call = [fn |-> "getComponent", name |-> name])
    /\ refreshed' = (/\ dirty
                      /\ call = [fn |-> "getComponent", name |-> name]
                      /\ result = Nothing)
    /\ UNCHANGED <<window, rendered>>

GetMultipleComponentsCall(name) ==
    /\ call' = [fn |-> "getMultipleComponents", name |-> name]
    /\ result' = getMultipleComponents(window, name)
    /\ dirty' = FALSE
    /\ again' = (/\ ~dirty
                  /\ call = [fn |-> "getMultipleComponents", name |-> name])
    /\ refreshed' = (/\ dirty
                      /\ call = [fn |-> "getMultipleComponents", name |-> name]
                      /\ result = Nothing)
    /\ UNCHANGED <<window, rendered>>

Next ==
    \/ \E name \in SlotNames : \E v \in Exports(name) : Populate(name, v)
    \/ \E name \in SlotNames : GetComponentCall(name)
    \/ \E name \in SlotNames : GetMultipleComponentsCall(name)

Spec == Init /\ [][Next]_vars

\* The host mounts a unit of the last multi-slot resolution: React calls the
\* wrapping unit with the caller's props.
Render(i, props) ==
    /\ call.fn = "getMultipleComponents"
    /\ i \in 1..Len(result.units)
    /\ result.units[i].wrapped
    /\ rendered' = [done |-> TRUE, unit |-> result.units[i], props |-> props,
                    element |-> RenderWrapped(result.units[i], props)]
    /\ UNCHANGED <<window, call, result, dirty, again, refreshed>>

InitRender ==
    /\ \E h \in UNION {HashesOfLen(n) : n \in 1..MaxKeys} :
          window = [k \in ScopeNames |->
                       IF k = PREFIX \o "ExtraVisualisationSection"
                       THEN h ELSE Undefined]
    /\ call = NoCall
    /\ result = Nothing
    /\ dirty = FALSE
    /\ again = FALSE
    /\ refreshed = FALSE
    /\ rendered = NoRender

NextRender ==
    \/ \E name \in SlotNames : GetMultipleComponentsCall(name)
    \/ \E i \in 1..MaxKeys : \E props \in CallerProps : Render(i, props)

SpecRender == InitRender /\ [][NextRender]_vars

\* ------------------------------------------------------------------------
\* Notions the properties are stated in
\* ------------------------------------------------------------------------
\* a valid renderable: truthy, not a string, a mountable unit kind
Renderable(v) == v.truthy /\ v.ty # "string" /\ v.reactIs

\* the candidate a value stands for: its valid `default`, else itself when
\* valid, else none (undefined)
Candidate(v) ==
    IF Renderable(Get(v, "default")) THEN Get(v, "default")
    ELSE IF Renderable(v) THEN v ELSE Undefined

Materializes(v) == Candidate(v) # Undefined

\* the registry entry the last call asked for
Entry == window[PREFIX \o call.name]

\* the last call was made by fn and the registry is as that call saw it
Returned(fn) == call.fn = fn /\ ~dirty

\* an object with own keys that is not itself a single candidate
IsGroup(e) ==
    e.ty = "object" /\ e.truthy /\ Len(e.props) > 0 /\ ~Materializes(e)

\* the own properties of a group whose candidate passes validation
Survivors(e) == SelectSeq(e.props, LAMBDA p : Materializes(p[2]))

\* ------------------------------------------------------------------------
\* C1: a multi-slot entry that is an object with own keys, is not itself a
\* single candidate and has no key holding a valid candidate resolves to
\* nothing (null), never to an empty sequence.
\* ------------------------------------------------------------------------
C1_EmptyGroupYieldsNothing ==
    (Returned("getMultipleComponents") /\ IsGroup(Entry)
        /\ Survivors(Entry) = <<>>)
    => result = Nothing

\* ------------------------------------------------------------------------
\* C2: for a present entry E, getComponent returns the decoration of
\* E.default when E.default is a valid renderable, else the decoration of E
\* when E is a valid renderable (also when E carries a truthy invalid
\* `default`), else nothing; one level of `default` is unwrapped.
\* ------------------------------------------------------------------------
C2_SingleSlotResolution ==
    (Returned("getComponent") /\ Entry # Undefined)
    => result = IF Materializes(Entry)
                THEN One(Decorate(Candidate(Entry)))
                ELSE Nothing

\* C2 as the code has it: getComponent takes X = E.default when E.default is
\* truthy, valid or not, and X = E otherwise, and returns the decoration of
\* X.default when that is a valid renderable, else of X when X is a valid
\* renderable, else nothing: up to two levels of `default` are unwrapped
\* and E is not used when it carries a truthy invalid `default`.
FirstChoice(e) ==
    IF Get(e, "default").truthy THEN Get(e, "default") ELSE e

C2_TwoStageResolution ==
    (Returned("getComponent") /\ Entry # Undefined)
    => result = IF Materializes(FirstChoice(Entry))
                THEN One(Decorate(Candidate(FirstChoice(Entry))))
                ELSE Nothing

\* a valid component carrying a truthy invalid `default` resolved to nothing
C2_Witness ==
    /\ Returned("getComponent")
    /\ Renderable(Entry)
    /\ Get(Entry, "default") = Num
    /\ result = Nothing

\* ------------------------------------------------------------------------
\* C3: for a multi-slot entry that is an object hash of named candidates
\* (any key names) and is not itself a single candidate,
\* getMultipleComponents returns one decorated unit per key whose candidate
\* passes validation, in key enumeration order, each wrapped with
\* loadedPluginNames equal to the surviving keys in that order.
\* ------------------------------------------------------------------------
C3_GroupResolution ==
    (Returned("getMultipleComponents") /\ IsGroup(Entry)
        /\ Survivors(Entry) # <<>>)
    => LET kept == Survivors(Entry)
           names == [i \in 1..Len(kept) |-> kept[i][1]]
       IN  result =
               List([i \in 1..Len(kept) |->
                       [component |-> Candidate(kept[i][2]),
                        wrapped |-> TRUE,
                        loadedPluginNames |-> names]])

\* C3 for the hashes the code treats as hashes: the same, for an object hash
\* whose own `default` property is absent or falsy and that holds at least
\* one valid candidate.
C3_GroupResolutionNoDefault ==
    (Returned("getMultipleComponents") /\ IsGroup(Entry)
        /\ ~Get(Entry, "default").truthy /\ Survivors(Entry) # <<>>)
    => LET kept == Survivors(Entry)
           names == [i \in 1..Len(kept) |-> kept[i][1]]
       IN  result =
               List([i \in 1..Len(kept) |->
                       [component |-> Candidate(kept[i][2]),
                        wrapped |-> TRUE,
                        loadedPluginNames |-> names]])

\* a two-key hash resolved with its first member dropped
C3_Witness ==
    /\ Returned("getMultipleComponents")
    /\ IsGroup(Entry)
    /\ ~Get(Entry, "default").truthy
    /\ Len(Entry.props) = MaxKeys
    /\ ~Materializes(Entry.props[1][2])
    /\ Len(result.units) = Len(Entry.props) - 1
    /\ result.units[1].loadedPluginNames # <<>>

\* ------------------------------------------------------------------------
\* C4: default-unwrap transparency: for every valid renderable C registered
\* at a slot, whatever `default` C carries, both resolvers return for
\* { default: C } registered there what they return for C.
\* ------------------------------------------------------------------------
C4_DefaultUnwrapTransparent ==
    \A name \in SlotNames :
        LET C == window[PREFIX \o name]
            boxed == [window EXCEPT
                         ![PREFIX \o name] = Obj(<<<<"default", C>>>>)]
        IN  Renderable(C)
            => /\ getComponent(boxed, name) = getComponent(window, name)
               /\ getMultipleComponents(boxed, name)
                      = getMultipleComponents(window, name)

\* C4 where it holds: the same, for every valid renderable C whose own
\* `default` is absent or falsy, or is a valid renderable that itself
\* carries no valid `default`.
C4_TransparentForPlainDefault ==
    \A name \in SlotNames :
        LET C == window[PREFIX \o name]
            D == Get(C, "default")
            boxed == [window EXCEPT
                         ![PREFIX \o name] = Obj(<<<<"default", C>>>>)]
        IN  (Renderable(C)
                /\ (~D.truthy
                       \/ (Renderable(D) /\ ~Renderable(Get(D, "default")))))
            => /\ getComponent(boxed, name) = getComponent(window, name)
               /\ getMultipleComponents(boxed, name)
                      = getMultipleComponents(window, name)

\* a component carrying a valid `default` was resolved, to that default
C4_Witness ==
    /\ Returned("getComponent")
    /\ Renderable(Entry)
    /\ Renderable(Get(Entry, "default"))
    /\ result = One(Decorate(Get(Entry, "default")))

\* ------------------------------------------------------------------------
\* C5: a multi-slot entry that is itself a single valid candidate resolves
\* to a sequence of exactly one unit without loadedPluginNames, and a
\* one-member hash { k: C } with C valid resolves to one unit that carries
\* loadedPluginNames = [k].
\* ------------------------------------------------------------------------
C5_SingleVersusOneMemberGroup ==
    Returned("getMultipleComponents")
    => /\ Renderable(Entry)
          => /\ result.kind = "list"
             /\ Len(result.units) = 1
             /\ ~result.units[1].wrapped
       /\ (IsGroup(Entry) /\ Len(Entry.props) = 1
              /\ Renderable(Entry.props[1][2]))
          => /\ result.kind = "list"
             /\ Len(result.units) = 1
             /\ result.units[1].wrapped
             /\ result.units[1].loadedPluginNames = <<Entry.props[1][1]>>

\* C5 where it holds: the same, for a single valid candidate whose own
\* `default` is absent or falsy or itself stands for a single candidate.
C5_SingleWithUsableDefault ==
    Returned("getMultipleComponents")
    => /\ (Renderable(Entry)
              /\ (~Get(Entry, "default").truthy
                     \/ Materializes(Get(Entry, "default"))))
          => /\ result.kind = "list"
             /\ Len(result.units) = 1
             /\ ~result.units[1].wrapped
       /\ (IsGroup(Entry) /\ Len(Entry.props) = 1
              /\ Renderable(Entry.props[1][2]))
          => /\ result.kind = "list"
             /\ Len(result.units) = 1
             /\ result.units[1].wrapped
             /\ result.units[1].loadedPluginNames = <<Entry.props[1][1]>>

\* a lone component was resolved by the multi-slot resolver
C5_Witness ==
    /\ Returned("getMultipleComponents")
    /\ Entry = CompA
    /\ result = List(<<Decorate(CompA)>>)

\* ------------------------------------------------------------------------
\* C6: for a slot name whose scope key is not populated, getComponent and
\* getMultipleComponents return nothing (null), whatever the other slot
\* names hold.
\* ------------------------------------------------------------------------
C6_AbsentSlotYieldsNothing ==
    (call # NoCall /\ Entry = Undefined) => result = Nothing

\* an empty slot was resolved while another slot held a valid component
C6_Witness ==
    /\ call # NoCall
    /\ ~dirty
    /\ Entry = Undefined
    /\ \E k \in ScopeNames : Renderable(window[k])
    /\ result = Nothing

\* ------------------------------------------------------------------------
\* C7: the unit made by wrapComponentWithProps renders the wrapped component
\* with the caller's props without children, overridden by the extra props:
\* a key of the extra props carries their value even when the caller gives
\* it, the caller's other keys keep their value, and the caller's children
\* go in as the children argument.
\* ------------------------------------------------------------------------
C7_ExtraPropsWin ==
    rendered.done
    => LET P == rendered.props
           config == rendered.element.config
       IN  /\ rendered.element.type = Decorate(rendered.unit.component)
           /\ DOMAIN config
                  = (DOMAIN P \ {"children"}) \cup {"loadedPluginNames"}
           /\ config["loadedPluginNames"] = rendered.unit.loadedPluginNames
           /\ \A k \in DOMAIN P \ {"children", "loadedPluginNames"} :
                  config[k] = P[k]
           /\ rendered.element.children
                  = IF "children" \in DOMAIN P THEN P["children"]
                    ELSE NoChildren

\* a unit was mounted with caller props that collide with the extra props
C7_Witness ==
    /\ rendered.done
    /\ DOMAIN rendered.props = PropKeys
    /\ rendered.props["loadedPluginNames"]
           # rendered.unit.loadedPluginNames
    /\ rendered.element.children = rendered.props["children"]

\* ------------------------------------------------------------------------
\* C8: a resolver called again on the same slot name with the registry
\* unchanged since the call before returns a structurally equal result, and
\* no resolver call changes the registry.
\* ------------------------------------------------------------------------
C8_Idempotent ==
    [][/\ (call' # call \/ result' # result \/ again' # again)
          => window' = window
       /\ (call' = call /\ call # NoCall /\ ~dirty /\ ~dirty')
          => result' = result]_vars

\* a two-member group was resolved twice in a row on an unchanged registry
C8_Witness ==
    /\ again
    /\ call.fn = "getMultipleComponents"
    /\ Len(result.units) = MaxKeys

\* ------------------------------------------------------------------------
\* C9: a multi-slot entry that is present but neither a valid single
\* candidate nor an object resolves to nothing (null), as a value.
\* ------------------------------------------------------------------------
C9_MalformedContainerYieldsNothing ==
    (Returned("getMultipleComponents") /\ Entry # Undefined
        /\ ~Materializes(Entry) /\ Entry.ty # "object")
    => result = Nothing

\* a non-empty string was resolved by the multi-slot resolver
C9_Witness ==
    /\ Returned("getMultipleComponents")
    /\ Entry = Str
    /\ result = Nothing

\* ------------------------------------------------------------------------
\* C10: isValidElementType is true only of values that are truthy, not a
\* string and accepted by ReactIs; it is false of every string and of every
\* falsy value; and no unit a resolver returns is built from a candidate
\* that fails it.
\* ------------------------------------------------------------------------
\* the values in the registry: the entries, their properties, and theirs
Parts(v) == {v} \cup {v.props[i][2] : i \in 1..Len(v.props)}
RegistryValues ==
    UNION {UNION {Parts(x) : x \in Parts(window[k])} : k \in ScopeNames}

C10_OnlyValidatedCandidates ==
    /\ \A v \in RegistryValues :
          /\ isValidElementType(v)
                => (v.truthy /\ v.ty # "string" /\ v.reactIs)
          /\ (v.ty = "string" \/ ~v.truthy) => ~isValidElementType(v)
    /\ \A i \in 1..Len(result.units) :
          LET c == result.units[i].component
          IN  c.truthy /\ c.ty # "string" /\ c.reactIs

\* a string exported as `default`, where a component would stand, was
\* resolved to nothing
C10_Witness ==
    /\ Returned("getComponent")
    /\ Get(Entry, "default") = Str
    /\ result = Nothing

\* ------------------------------------------------------------------------
\* C11: no caching across calls: whatever was resolved before and whatever
\* bundles have populated the registry in between, what a resolver call
\* returns is determined by the registry entry at the moment of the call
\* alone; a slot that resolved to nothing before its key was populated
\* resolves to the decorated plugin on the next call.
\* ------------------------------------------------------------------------
\* what the entry e stands for, read afresh, for each resolver
Resolution(fn, e) ==
    LET X == FirstChoice(e)
        kept == Survivors(X)
        names == [i \in 1..Len(kept) |-> kept[i][1]]
    IN  IF fn = "getComponent"
        THEN IF Materializes(X) THEN One(Decorate(Candidate(X))) ELSE Nothing
        ELSE IF Materializes(X) THEN List(<<Decorate(Candidate(X))>>)
        ELSE IF ~X.truthy \/ X.ty # "object" \/ Len(X.props) = 0 THEN Nothing
        ELSE List([i \in 1..Len(kept) |->
                     [component |-> Candidate(kept[i][2]),
                      wrapped |-> TRUE,
                      loadedPluginNames |-> names]])

\* a step that leaves the registry as it is is a resolver call
C11_NoCaching ==
    [][window' = window
       => /\ result' = Resolution(call'.fn, window'[PREFIX \o call'.name])
          /\ (call' = call /\ dirty /\ result = Nothing
                 /\ Renderable(window'[PREFIX \o call'.name])
                 /\ ~Get(window'[PREFIX \o call'.name], "default").truthy)
             => /\ result' # Nothing
                /\ result'.units
                       = <<Decorate(window'[PREFIX \o call'.name])>>]_vars

\* a slot that had resolved to nothing was populated with a plugin and then
\* resolved to that plugin, decorated
C11_Witness ==
    /\ refreshed
    /\ ~dirty
    /\ call.fn = "getMultipleComponents"
    /\ Entry = CompB
    /\ result = List(<<Decorate(CompB)>>)

====
